---- MODULE Spec2Model ----
(***************************************************************************)
(* Model of generator.py: the role-preference validator, the candidate     *)
(* scoring functions, the assignment enumerator and the composition search *)
(* (generate_team_combinations / generate_team_combinations_advanced).     *)
(*                                                                         *)
(* Numbers.  The program computes in floating point.  The model uses       *)
(* fixed-point integers in thousandths: a rank point is 1000, the shot-    *)
(* caller bonus 0.5 is 500, the advanced role-fit factors 0.02 / -0.02 /   *)
(* -0.30 are 20 / -20 / -300 per rank point, and a square root is the      *)
(* integer square root of the radicand scaled by 10^6.                     *)
(*                                                                         *)
(* Objects.  pool is the list of Player objects; a reference to a Player   *)
(* (an entry of a tuple, a value of an assignment dict) is the index of    *)
(* the object in pool, so two entries with equal field values remain two   *)
(* objects.  The dataclass-generated __eq__ compares field values          *)
(* (PlayerEq).                                                             *)
(***************************************************************************)
EXTENDS Integers, Sequences, FiniteSets

VARIABLES
    pool,               \* players: the list passed to the search
    num_combinations,   \* the search's result count N
    mode,               \* "standard" | "advanced": which search function runs
    pc,                 \* position of the running function
    team_players,       \* current 10-combination of players (<<>> before
                        \* the first): the index tuple of the iterator
    red_team_players,   \* current 5-combination of team_players
    blue_team_players,  \* the tuple built at lines 916 / 960
    red_assignments,    \* generate_valid_position_assignments(red)
    blue_assignments,   \* generate_valid_position_assignments(blue)
    split_it,           \* iterator state of combinations(team_players, 5)
    ri, bi,             \* positions of the two innermost for loops
    valid_combinations, \* the collected list
    result,             \* the returned list (after the function returned)
    error,              \* "none" or the name of the exception that escaped
    lookups,            \* <<player, position, tier>> of every rank_points /
                        \* role-fit call made for the last evaluated pair
    splits_seen,        \* number of 5/5 splits taken from the current subset
    pref_in,            \* argument of create_position_preference (a dict)
    pref_out,           \* the PositionPreference built, or a raised error
    returned,           \* the last method call on a Player or a
                        \* PositionPreference, with what it returned
    flip,               \* the candidates whose order_capable differs between
                        \* the two pools a pair is scored on
    self_players,       \* PlayerListFrame.players (self.players)
    tree,               \* the rows of PlayerListFrame.tree, top to bottom
    dialog,             \* the messagebox the last handler showed, or "none"
    results_window,     \* TRUE once a handler opened a results window
    current_page,       \* current_page[0] of the results window
    text_widget,        \* the compositions the results window shows, each
                        \* under its heading number
    page_label          \* the text of the page label

vars == <<pool, num_combinations, mode, pc, team_players, red_team_players,
          blue_team_players, red_assignments, blue_assignments,
          split_it, ri, bi,
          valid_combinations, result, error, lookups, splits_seen,
          pref_in, pref_out,
          returned, flip, self_players, tree, dialog, results_window,
          current_page, text_widget, page_label>>

\* the state of a method call under study
call_vars == <<returned, flip>>

\* the state of the PlayerListFrame
frame_vars == <<self_players, tree, dialog, results_window, current_page,
                text_widget, page_label>>

\* the state of the pagination of a results window
page_vars == <<current_page, text_widget, page_label>>

-----------------------------------------------------------------------------
(* Constants of the program                                                *)

POSITIONS == <<"top", "jgl", "mid", "bot", "sup">>

RANKS == <<"iron", "bronze", "silver", "gold", "platinum", "emerald",
           "diamond", "master", "grandmaster", "challenger">>

SERVERS == <<"others", "korea", "china">>

HIGH_SKILL_SERVERS == {"korea", "china"}

RANKS_POINT_DICT ==
    [challenger  |-> [top |-> 46, jgl |-> 51, mid |-> 50, bot |-> 44, sup |-> 43],
     grandmaster |-> [top |-> 43, jgl |-> 47, mid |-> 46, bot |-> 40, sup |-> 40],
     master      |-> [top |-> 39, jgl |-> 47, mid |-> 46, bot |-> 40, sup |-> 40],
     diamond     |-> [top |-> 31, jgl |-> 34, mid |-> 34, bot |-> 28, sup |-> 30],
     emerald     |-> [top |-> 28, jgl |-> 31, mid |-> 31, bot |-> 25, sup |-> 27],
     platinum    |-> [top |-> 23, jgl |-> 25, mid |-> 24, bot |-> 21, sup |-> 23],
     gold        |-> [top |-> 19, jgl |-> 17, mid |-> 16, bot |-> 16, sup |-> 19],
     silver      |-> [top |-> 13, jgl |-> 8,  mid |-> 10, bot |-> 8,  sup |-> 13],
     bronze      |-> [top |-> 8,  jgl |-> 4,  mid |-> 8,  bot |-> 7,  sup |-> 11],
     iron        |-> [top |-> 8,  jgl |-> 4,  mid |-> 8,  bot |-> 7,  sup |-> 11]]

-----------------------------------------------------------------------------
(* Python built-ins used by the program                                    *)

\* set(list)
SeqToSet(s) == {s[i] : i \in DOMAIN s}

\* the five roles, as a set
Roles == SeqToSet(POSITIONS)

\* x in list
InList(x, s) == \E i \in DOMAIN s : s[i] = x

Min(a, b) == IF a <= b THEN a ELSE b

\* abs()
Abs(x) == IF x < 0 THEN -x ELSE x

\* floor of the square root, by bisection on lo <= r < hi
RECURSIVE ISqrtBetween(_, _, _)
ISqrtBetween(x, lo, hi) ==
    IF hi - lo <= 1 THEN lo
    ELSE LET m == (lo + hi) \div 2
         IN IF m * m <= x THEN ISqrtBetween(x, m, hi)
                          ELSE ISqrtBetween(x, lo, m)

\* math.sqrt / ** 0.5 on a fixed-point radicand already scaled by 10^6
ISqrt(x) == ISqrtBetween(x, 0, 46341)

\* list with the entry at index i removed
RemoveAt(s, i) == SubSeq(s, 1, i - 1) \o SubSeq(s, i + 1, Len(s))

\* all orderings of the entries of s, in lexicographic order of positions
RECURSIVE PermutationsRec(_), PermutationsFrom(_, _)
PermutationsRec(s) ==
    IF Len(s) = 0 THEN << <<>> >> ELSE PermutationsFrom(s, 1)
PermutationsFrom(s, i) ==
    IF i > Len(s) THEN <<>>
    ELSE LET rest == PermutationsRec(RemoveAt(s, i))
         IN [k \in 1..Len(rest) |-> <<s[i]>> \o rest[k]]
            \o PermutationsFrom(s, i + 1)

\* the orderings of the index range of a list of 0..5 entries (entry n + 1
\* of the table is for a list of n entries)
PermutationTable ==
    << PermutationsRec(<<>>), PermutationsRec(<<1>>), PermutationsRec(<<1, 2>>),
       PermutationsRec(<<1, 2, 3>>), PermutationsRec(<<1, 2, 3, 4>>),
       PermutationsRec(<<1, 2, 3, 4, 5>>) >>

\* the tuple of the entries of s at the index tuple c
Pick(s, c) == [k \in 1..Len(c) |-> s[c[k]]]

\* itertools.permutations(s) for a list of at most five entries: the
\* iterator permutes list positions and yields the entries at them
permutations(s) ==
    LET index_perms == PermutationTable[Len(s) + 1]
    IN [k \in 1..Len(index_perms) |-> Pick(s, index_perms[k])]

\* itertools.combinations(range(n), r), as an iterator: the index tuple
\* that follows c, where <<>> is the iterator before its first item.
FirstComb(r) == [k \in 1..r |-> k]
\* variant: the iterator yields a first item although the list is one short
HasNextCombOneShort(c, n, r) ==
    IF c = <<>> THEN r <= n + 1
    ELSE ~ (\A k \in 1..r : c[k] = k + n - r)

\* variant: the iterator stops once its first index would move, so that
\* mirrored halves are produced once
HasNextCombFirstFixed(c, n, r) ==
    IF c = <<>> THEN r <= n
    ELSE ~ (\A k \in 2..r : c[k] = k + n - r)

HasNextComb(c, n, r) ==
    IF c = <<>> THEN r <= n
    ELSE ~ (\A k \in 1..r : c[k] = k + n - r)
NextComb(c, n, r) ==
    IF c = <<>> THEN FirstComb(r)
    ELSE LET i == CHOOSE k \in 1..r :
                     /\ c[k] # k + n - r
                     /\ \A j \in (k + 1)..r : c[j] = j + n - r
         IN [k \in 1..r |-> IF k < i THEN c[k] ELSE c[i] + 1 + (k - i)]

-----------------------------------------------------------------------------
(* PositionPreference                                                      *)

\* The three lists of a PositionPreference, concatenated
AllPositionsList(pp) == pp.main_roles \o pp.secondary_roles \o pp.tertiary_roles

\* variant: __post_init__ without the loop that validates the role names
PostInitNoRoleCheck(pp) ==
    LET all_positions == AllPositionsList(pp)
    IN IF Len(all_positions) # Cardinality(SeqToSet(all_positions))
       THEN "ValueError"
       ELSE "ok"

\* PositionPreference.__post_init__: "ok" or the raised exception
PostInit(pp) ==
    LET all_positions == AllPositionsList(pp)
    IN IF Len(all_positions) # Cardinality(SeqToSet(all_positions))
       THEN "ValueError"
       ELSE IF \E i \in DOMAIN all_positions :
                   ~ InList(all_positions[i], POSITIONS)
            THEN "ValueError"
            ELSE "ok"

get_all_positions(pp) == SeqToSet(AllPositionsList(pp))

\* variant: a tertiary role is reported as a secondary one
get_position_tier_two_tiers(pp, position) ==
    IF InList(position, pp.main_roles) THEN 1
    ELSE IF InList(position, pp.secondary_roles) THEN 2
    ELSE IF InList(position, pp.tertiary_roles) THEN 2
    ELSE -1

get_position_tier(pp, position) ==
    IF InList(position, pp.main_roles) THEN 1
    ELSE IF InList(position, pp.secondary_roles) THEN 2
    ELSE IF InList(position, pp.tertiary_roles) THEN 3
    ELSE -1

\* the dataclass fields set by the generated __init__
PositionPreference(main, secondary, tertiary) ==
    [main_roles |-> main, secondary_roles |-> secondary, tertiary_roles |-> tertiary]

\* PositionPreference(main_roles=..., ...): __init__ followed by
\* __post_init__; the object, or the exception and no object
NewPositionPreference(main, secondary, tertiary) ==
    LET pp == PositionPreference(main, secondary, tertiary)
    IN IF PostInit(pp) = "ok" THEN [raised |-> "none", value |-> pp]
       ELSE [raised |-> PostInit(pp), value |-> "no object"]

\* dict.get(key, [])
DictGet(d, key) == IF key \in DOMAIN d THEN d[key] ELSE <<>>

create_position_preference(positions) ==
    NewPositionPreference(DictGet(positions, "main"),
                          DictGet(positions, "secondary"),
                          DictGet(positions, "tertiary"))

-----------------------------------------------------------------------------
(* Player                                                                  *)

\* dataclass __eq__ of Player: equal dataclass fields
PlayerEq(p, q) ==
    /\ p.name = q.name
    /\ p.rank = q.rank
    /\ p.position_preference = q.position_preference
    /\ p.server = q.server
    /\ p.order_capable = q.order_capable

\* p in t, for a reference p and a tuple of references t: identity or __eq__
PlayerIn(p, t) == \E k \in DOMAIN t : t[k] = p \/ PlayerEq(pool[t[k]], pool[p])

\* str.lower() on the strings of the model that are not in lower case
LowerCaseOf == [Gold |-> "gold", Korea |-> "korea"]

lower(str) == IF str \in DOMAIN LowerCaseOf THEN LowerCaseOf[str] ELSE str

server_bonus(p) == IF lower(p.server) \in HIGH_SKILL_SERVERS THEN 1 ELSE 0

\* Player.rank_points(assigned_position) raises KeyError when the role is in
\* a tier and self.rank is no key of RANKS_POINT_DICT
rank_points_raises(p, assigned_position) ==
    /\ get_position_tier(p.position_preference, assigned_position) \in {1, 2, 3}
    /\ p.rank \notin DOMAIN RANKS_POINT_DICT

\* variant: the table entry of the assigned role
rank_points_of_assigned_role(p, assigned_position) ==
    LET pp == p.position_preference
        tier == get_position_tier(pp, assigned_position)
        weighted_points ==
            IF tier \in {1, 2, 3} THEN RANKS_POINT_DICT[p.rank][assigned_position]
            ELSE 0
    IN server_bonus(p) + weighted_points

\* Player.rank_points(assigned_position), in rank points (integer valued),
\* when it does not raise
rank_points(p, assigned_position) ==
    LET pp == p.position_preference
        tier == get_position_tier(pp, assigned_position)
        weighted_points ==
            IF tier = 1 THEN RANKS_POINT_DICT[p.rank][pp.main_roles[1]]
            ELSE IF tier = 2 THEN RANKS_POINT_DICT[p.rank][pp.secondary_roles[1]]
            ELSE IF tier = 3 THEN RANKS_POINT_DICT[p.rank][pp.tertiary_roles[1]]
            ELSE 0
    IN server_bonus(p) + weighted_points

\* float('-inf'), as a value below every score of the model
NegInf == -2000000000

\* variant: the tertiary factor is -0.03
position_penalty_advanced_small_tertiary(p, assigned_position) ==
    LET tier == get_position_tier(p.position_preference, assigned_position)
    IN IF tier = 1 THEN rank_points(p, assigned_position) * 20
       ELSE IF tier = 2 THEN rank_points(p, assigned_position) * (-20)
       ELSE IF tier = 3 THEN rank_points(p, assigned_position) * (-30)
       ELSE NegInf

\* Player.position_penalty_advanced, in thousandths, when rank_points does
\* not raise
position_penalty_advanced(p, assigned_position) ==
    LET tier == get_position_tier(p.position_preference, assigned_position)
    IN IF tier = 1 THEN rank_points(p, assigned_position) * 20
       ELSE IF tier = 2 THEN rank_points(p, assigned_position) * (-20)
       ELSE IF tier = 3 THEN rank_points(p, assigned_position) * (-300)
       ELSE NegInf

\* Player.order_points, in thousandths
order_points(p) == IF p.order_capable THEN 500 ELSE 0

-----------------------------------------------------------------------------
(* Assignment enumerator                                                   *)

\* the dict built from zip(POSITIONS, perm)
ZipPositions(perm) ==
    [position \in {POSITIONS[k] : k \in 1..Min(Len(perm), Len(POSITIONS))}
        |-> perm[CHOOSE k \in 1..Len(POSITIONS) : POSITIONS[k] = position]]

\* variant: the membership test looks at the main roles only
IsValidAssignmentMainOnly(perm) ==
    \A k \in 1..Min(Len(perm), Len(POSITIONS)) :
        InList(POSITIONS[k], pool[perm[k]].position_preference.main_roles)

\* inner loop of generate_valid_position_assignments: is_valid_assignment
IsValidAssignment(perm) ==
    \A k \in 1..Min(Len(perm), Len(POSITIONS)) :
        POSITIONS[k] \in get_all_positions(pool[perm[k]].position_preference)

\* the for loop over the permutations lo..hi of the list: the dicts appended
\* to valid_assignments, in order
RECURSIVE ValidAssignmentsBetween(_, _, _)
ValidAssignmentsBetween(perms, lo, hi) ==
    IF lo > hi THEN <<>>
    ELSE IF lo = hi
    THEN (IF IsValidAssignment(perms[lo]) THEN <<ZipPositions(perms[lo])>>
                                          ELSE <<>>)
    ELSE LET half == (lo + hi) \div 2
         IN ValidAssignmentsBetween(perms, lo, half)
            \o ValidAssignmentsBetween(perms, half + 1, hi)

generate_valid_position_assignments(team) ==
    LET perms == permutations(team)
    IN ValidAssignmentsBetween(perms, 1, Len(perms))

-----------------------------------------------------------------------------
(* Team scorer.  A call is modelled by the record                          *)
(*   [raised |-> "none" or the exception, value |-> the returned number,   *)
(*    calls  |-> the <<player id, position, tier>> of every tiered lookup  *)
(*               (rank_points / role-fit adjustment) the call makes]       *)

RECURSIVE SumSeq(_)
SumSeq(s) == IF Len(s) = 0 THEN 0 ELSE Head(s) + SumSeq(Tail(s))

\* the keys of a position dict, in insertion order (POSITIONS order)
Keys(position_assignments) ==
    LET InDict(position) == position \in DOMAIN position_assignments
    IN SelectSeq(POSITIONS, InDict)

Lookup(p, position) ==
    <<p, position, get_position_tier(pool[p].position_preference, position)>>

\* Player.position_penalty (standard mode), in thousandths
position_penalty(p, assigned_position) ==
    LET tier == get_position_tier(p.position_preference, assigned_position)
    IN IF tier = 1 THEN 2500
       ELSE IF tier = 2 THEN -1500
       ELSE IF tier = 3 THEN -5000
       ELSE NegInf

\* player.rank_points() with no argument: the method defined at line 150
\* replaces the property of line 143, so the call lacks a positional argument
rank_points_no_argument(p) == "TypeError"

\* variant: the signed difference
calculate_t_value_signed(red_score, blue_score) == red_score - blue_score

calculate_t_value(red_score, blue_score) == Abs(red_score - blue_score)

\* variant: the lane score includes the shot-caller bonus
PosScoreAdvancedWithOrder(p, position) ==
    rank_points(p, position) * 1000 + position_penalty_advanced(p, position)
    + order_points(p)

\* one lane's score in advanced mode, in thousandths
PosScoreAdvanced(p, position) ==
    rank_points(p, position) * 1000 + position_penalty_advanced(p, position)

\* Every lane score is a multiple of 0.02, so the difference is squared in
\* units of 0.02; mean of the squares * 400 / 5 = sum * 80 is the radicand
\* in thousandths squared.
calculate_l_value_advanced(red_team, blue_team) ==
    IF \E k \in 1..Len(POSITIONS) :
           POSITIONS[k] \notin DOMAIN red_team \/ POSITIONS[k] \notin DOMAIN blue_team
    THEN [raised |-> "KeyError", value |-> 0, calls |-> {}]
    ELSE IF \E k \in 1..Len(POSITIONS) :
                \/ rank_points_raises(pool[red_team[POSITIONS[k]]], POSITIONS[k])
                \/ rank_points_raises(pool[blue_team[POSITIONS[k]]], POSITIONS[k])
    THEN [raised |-> "KeyError", value |-> 0, calls |-> {}]
    ELSE LET squared_diffs ==
                 [k \in 1..Len(POSITIONS) |->
                    LET position == POSITIONS[k]
                        red_pos_score == PosScoreAdvanced(pool[red_team[position]], position)
                        blue_pos_score == PosScoreAdvanced(pool[blue_team[position]], position)
                        diff == (red_pos_score - blue_pos_score) \div 20
                    IN diff * diff]
         IN [raised |-> "none",
             value  |-> ISqrt(SumSeq(squared_diffs) * (400 \div Len(POSITIONS))),
             calls  |-> {Lookup(red_team[POSITIONS[k]], POSITIONS[k]) :
                            k \in 1..Len(POSITIONS)}
                        \cup {Lookup(blue_team[POSITIONS[k]], POSITIONS[k]) :
                            k \in 1..Len(POSITIONS)}]

\* calculate_l_value (standard mode): the first lane's lookups
calculate_l_value(red_team, blue_team) ==
    IF POSITIONS[1] \notin DOMAIN red_team \/ POSITIONS[1] \notin DOMAIN blue_team
    THEN [raised |-> "KeyError", value |-> 0, calls |-> {}]
    ELSE [raised |-> rank_points_no_argument(pool[red_team[POSITIONS[1]]]),
          value |-> 0, calls |-> {}]

\* evaluate_team_composition (standard mode)
evaluate_team_composition(players, position_assignments) ==
    IF Len(Keys(position_assignments)) > 0
    THEN [raised |-> rank_points_no_argument(
                         pool[position_assignments[Keys(position_assignments)[1]]]),
          value |-> 0, calls |-> {}]
    ELSE IF Len(players) > 0
    THEN [raised |-> rank_points_no_argument(pool[players[1]]),
          value |-> 0, calls |-> {}]
    ELSE [raised |-> "ZeroDivisionError", value |-> 0, calls |-> {}]

\* evaluate_team_composition_advanced.  After the for loop the variable
\* "position" keeps the last key of the dict, and the synergy term looks
\* every player of the side up at that position.
evaluate_team_composition_advanced(players, position_assignments) ==
    LET keys == Keys(position_assignments)
        per_player == [k \in 1..Len(keys) |->
                         LET position == keys[k]
                             player == pool[position_assignments[position]]
                         IN rank_points(player, position) * 1000
                            + position_penalty_advanced(player, position)
                            + order_points(player)]
        loop_calls == {Lookup(position_assignments[keys[k]], keys[k]) :
                          k \in 1..Len(keys)}
    IN IF \E k \in 1..Len(keys) :
              rank_points_raises(pool[position_assignments[keys[k]]], keys[k])
       THEN [raised |-> "KeyError", value |-> 0, calls |-> loop_calls]
       ELSE IF Len(players) = 0
       THEN [raised |-> "ZeroDivisionError", value |-> 0, calls |-> loop_calls]
       ELSE IF \E k \in 1..Len(players) :
                   rank_points_raises(pool[players[k]], keys[Len(keys)])
       THEN [raised |-> "KeyError", value |-> 0, calls |-> loop_calls]
       ELSE LET position == keys[Len(keys)]
                rank_sum == SumSeq([k \in 1..Len(players) |->
                                      rank_points(pool[players[k]], position)])
                \* avg_rank ** 0.5, radicand in millionths
                synergy == ISqrt((rank_sum * 1000000) \div Len(players))
            IN [raised |-> "none",
                value  |-> SumSeq(per_player) + synergy,
                calls  |-> loop_calls
                           \cup {Lookup(players[k], position) :
                                    k \in 1..Len(players)}]

-----------------------------------------------------------------------------
(* sorted(valid_combinations, key = t_value + l_value)[:num_combinations]  *)

SortKey(x) == x.t_value + x.l_value

\* variant: on equal keys the entries of b come first (not stable)
MergeUnstable(a, b) ==
    LET PosA(i) == i + Cardinality({j \in DOMAIN b : SortKey(b[j]) <= SortKey(a[i])})
        PosB(j) == j + Cardinality({i \in DOMAIN a : SortKey(a[i]) < SortKey(b[j])})
        place_a == [i \in DOMAIN a |-> PosA(i)]
        merged == [k \in 1..(Len(a) + Len(b)) |->
                     IF \E i \in DOMAIN a : place_a[i] = k
                     THEN a[CHOOSE i \in DOMAIN a : place_a[i] = k]
                     ELSE b[CHOOSE j \in DOMAIN b : PosB(j) = k]]
    IN SubSeq(merged, 1, Len(a) + Len(b))

\* stable merge of two sorted lists: on equal keys the entries of a come
\* first.  PosA / PosB are the places of a[i] / b[j] in the merged list.
Merge(a, b) ==
    LET PosA(i) == i + Cardinality({j \in DOMAIN b : SortKey(b[j]) < SortKey(a[i])})
        PosB(j) == j + Cardinality({i \in DOMAIN a : SortKey(a[i]) <= SortKey(b[j])})
        place_a == [i \in DOMAIN a |-> PosA(i)]
        merged == [k \in 1..(Len(a) + Len(b)) |->
                     IF \E i \in DOMAIN a : place_a[i] = k
                     THEN a[CHOOSE i \in DOMAIN a : place_a[i] = k]
                     ELSE b[CHOOSE j \in DOMAIN b : PosB(j) = k]]
    IN SubSeq(merged, 1, Len(a) + Len(b))

\* sorted(s, key=SortKey): a stable sort (merge sort)
RECURSIVE sorted(_)
sorted(s) ==
    IF Len(s) <= 1 THEN s
    ELSE LET half == Len(s) \div 2
         IN Merge(sorted(SubSeq(s, 1, half)), sorted(SubSeq(s, half + 1, Len(s))))

\* s[:n] for n >= 0
Slice(s, n) == SubSeq(s, 1, Min(n, Len(s)))

-----------------------------------------------------------------------------
(* Inputs of the model                                                     *)

\* largest result count N tried
MaxTopN == 2

\* the result count the two callers pass (num_combinations=100)
ResultCount == 100

\* pools are a roster with at most MaxDrop of its last rows left unselected
MaxDrop == 2

\* longest role list given to the preference validator
MaxRoles == 2

Player(name, rank, server, order_capable, main, secondary, tertiary) ==
    [name |-> name, rank |-> rank,
     position_preference |-> PositionPreference(main, secondary, tertiary),
     server |-> server, order_capable |-> order_capable]

\* eleven different players: two mains per role, some with further tiers,
\* and one who plays bot as a tertiary role only
RosterMixed ==
    << Player("top1", "gold",     "others", FALSE, <<"top">>, <<>>, <<>>),
       Player("top2", "platinum", "korea",  TRUE,  <<"top">>, <<"mid">>, <<>>),
       Player("jgl1", "gold",     "others", FALSE, <<"jgl">>, <<>>, <<>>),
       Player("jgl2", "gold",     "china",  FALSE, <<"jgl">>, <<>>, <<"sup">>),
       Player("mid1", "platinum", "others", FALSE, <<"mid">>, <<>>, <<>>),
       Player("mid2", "gold",     "others", TRUE,  <<"mid">>, <<"top">>, <<>>),
       Player("bot1", "gold",     "others", FALSE, <<"bot">>, <<>>, <<>>),
       Player("bot2", "silver",   "others", TRUE,  <<"bot">>, <<>>, <<>>),
       Player("sup1", "gold",     "others", FALSE, <<"sup">>, <<>>, <<>>),
       Player("sup2", "platinum", "others", FALSE, <<"sup">>, <<>>, <<>>),
       Player("bot3", "emerald",  "others", FALSE, <<>>, <<>>, <<"bot">>) >>

\* ten players, the two supports entered twice with the same field values
RosterTwin ==
    << Player("top1", "gold",     "others", FALSE, <<"top">>, <<>>, <<>>),
       Player("top2", "platinum", "others", FALSE, <<"top">>, <<>>, <<>>),
       Player("jgl1", "gold",     "others", FALSE, <<"jgl">>, <<>>, <<>>),
       Player("jgl2", "platinum", "others", FALSE, <<"jgl">>, <<>>, <<>>),
       Player("mid1", "gold",     "others", FALSE, <<"mid">>, <<>>, <<>>),
       Player("mid2", "platinum", "others", FALSE, <<"mid">>, <<>>, <<>>),
       Player("bot1", "gold",     "others", FALSE, <<"bot">>, <<>>, <<>>),
       Player("bot2", "platinum", "others", FALSE, <<"bot">>, <<>>, <<>>),
       Player("sup1", "gold",     "others", FALSE, <<"sup">>, <<>>, <<>>),
       Player("sup1", "gold",     "others", FALSE, <<"sup">>, <<>>, <<>>) >>

\* ten players, every one entered twice
RosterPairs ==
    [i \in 1..10 |->
        Player(POSITIONS[(i + 1) \div 2], "gold", "others", FALSE,
               <<POSITIONS[(i + 1) \div 2]>>, <<>>, <<>>)]

\* ten players that differ in name only, two per role
RosterEven ==
    [i \in 1..10 |->
        Player(<<"a", "b", "c", "d", "e", "f", "g", "h", "i", "j">>[i],
               "gold", "others", FALSE, <<POSITIONS[(i + 1) \div 2]>>, <<>>, <<>>)]

Rosters == {RosterMixed, RosterTwin, RosterPairs, RosterEven}

\* PlayerListFrame.get_selected_players: the checked players, in list order
get_selected_players(players, checked) ==
    LET IsChecked(i) == i \in checked
        rows == SelectSeq([i \in 1..Len(players) |-> i], IsChecked)
    IN [k \in 1..Len(rows) |-> players[rows[k]]]

\* the pools: the first rows of a roster checked, at most MaxDrop rows not
Pools ==
    {get_selected_players(r, 1..(Len(r) - k)) : k \in 0..MaxDrop, r \in Rosters}

NoPreference == [raised |-> "none", value |-> "no object"]

NoCall == [method |-> "none"]

\* the label as created at line 689: text=""
NoLabel == [text |-> ""]

\* no results window yet: nothing paged, nothing shown
NoPage ==
    /\ current_page = 0
    /\ text_widget = <<>>
    /\ page_label = NoLabel

\* no method call under study, and a PlayerListFrame as constructed: no
\* player, no row, nothing shown
NoFrame ==
    /\ returned = NoCall
    /\ flip = {}
    /\ self_players = <<>>
    /\ tree = <<>>
    /\ dialog = "none"
    /\ results_window = FALSE
    /\ NoPage

-----------------------------------------------------------------------------
(* The composition search: generate_team_combinations (mode "standard")    *)
(* and generate_team_combinations_advanced (mode "advanced")               *)

Init ==
    /\ pool \in Pools
    /\ num_combinations \in (0..MaxTopN) \cup {ResultCount}
    /\ mode \in {"standard", "advanced"}
    /\ pc = "subsets"
    /\ team_players = <<>>
    /\ red_team_players = <<>>
    /\ blue_team_players = <<>>
    /\ red_assignments = <<>>
    /\ blue_assignments = <<>>
    /\ split_it = <<>>
    /\ ri = 1
    /\ bi = 1
    /\ valid_combinations = <<>>
    /\ result = <<>>
    /\ error = "none"
    /\ lookups = {}
    /\ splits_seen = 0
    /\ pref_in = <<>>
    /\ pref_out = NoPreference
    /\ NoFrame

\* the body of the two innermost loops for one pair of assignments
ScorePair(red_pos, blue_pos) ==
    LET red_score == IF mode = "advanced"
                     THEN evaluate_team_composition_advanced(red_team_players, red_pos)
                     ELSE evaluate_team_composition(red_team_players, red_pos)
        blue_score == IF mode = "advanced"
                      THEN evaluate_team_composition_advanced(blue_team_players, blue_pos)
                      ELSE evaluate_team_composition(blue_team_players, blue_pos)
        t_value == calculate_t_value(red_score.value, blue_score.value)
        l_value == IF mode = "advanced"
                   THEN calculate_l_value_advanced(red_pos, blue_pos)
                   ELSE calculate_l_value(red_pos, blue_pos)
    IN IF red_score.raised # "none"
       THEN [raised |-> red_score.raised, calls |-> red_score.calls]
       ELSE IF blue_score.raised # "none"
       THEN [raised |-> blue_score.raised,
             calls |-> red_score.calls \cup blue_score.calls]
       ELSE IF l_value.raised # "none"
       THEN [raised |-> l_value.raised,
             calls |-> red_score.calls \cup blue_score.calls]
       ELSE [raised |-> "none",
             calls |-> red_score.calls \cup blue_score.calls \cup l_value.calls,
             comp |-> [red_team |-> red_pos, blue_team |-> blue_pos,
                       red_score |-> red_score.value,
                       blue_score |-> blue_score.value,
                       t_value |-> t_value, l_value |-> l_value.value]]

\* for team_players in combinations(players, 10): next item
SubsetLoop ==
    /\ pc = "subsets"
    /\ HasNextComb(team_players, Len(pool), 10)
    /\ team_players' = NextComb(team_players, Len(pool), 10)
    /\ split_it' = <<>>
    /\ splits_seen' = 0
    /\ pc' = "splits"
    /\ UNCHANGED <<call_vars, frame_vars>>
    /\ UNCHANGED <<pool, num_combinations, mode, red_team_players,
                   blue_team_players, red_assignments, blue_assignments, ri, bi,
                   valid_combinations, result, error, lookups, pref_in, pref_out>>

\* the outer loop is exhausted
SubsetsExhausted ==
    /\ pc = "subsets"
    /\ ~ HasNextComb(team_players, Len(pool), 10)
    /\ pc' = "sort"
    /\ UNCHANGED <<call_vars, frame_vars>>
    /\ UNCHANGED <<pool, num_combinations, mode, team_players, red_team_players,
                   blue_team_players, red_assignments, blue_assignments,
                   split_it, ri, bi, valid_combinations, result, error,
                   lookups, splits_seen, pref_in, pref_out>>

\* for red_team_players in combinations(team_players, 5): next item, the
\* blue tuple and the two assignment lists; with an empty assignment list
\* the two inner loops have no pass and the split loop continues
SplitLoop ==
    /\ pc = "splits"
    /\ HasNextComb(split_it, Len(team_players), 5)
    /\ LET it == NextComb(split_it, Len(team_players), 5)
           red == Pick(team_players, it)
           NotInRed(p) == ~ PlayerIn(p, red)
           blue == SelectSeq(team_players, NotInRed)
       IN /\ split_it' = it
          /\ red_team_players' = red
          /\ blue_team_players' = blue
          /\ red_assignments' = generate_valid_position_assignments(red)
          /\ blue_assignments' = generate_valid_position_assignments(blue)
    /\ ri' = 1
    /\ bi' = 1
    /\ splits_seen' = splits_seen + 1
    /\ pc' = IF Len(red_assignments') > 0 /\ Len(blue_assignments') > 0
             THEN "pairs" ELSE "splits"
    /\ UNCHANGED <<call_vars, frame_vars>>
    /\ UNCHANGED <<pool, num_combinations, mode, team_players,
                   valid_combinations, result, error, lookups, pref_in, pref_out>>

\* the split loop of the current subset is exhausted
SplitsExhausted ==
    /\ pc = "splits"
    /\ ~ HasNextComb(split_it, Len(team_players), 5)
    /\ pc' = "subsets"
    /\ UNCHANGED <<call_vars, frame_vars>>
    /\ UNCHANGED <<pool, num_combinations, mode, team_players, red_team_players,
                   blue_team_players, red_assignments, blue_assignments,
                   split_it, ri, bi, valid_combinations, result, error,
                   lookups, splits_seen, pref_in, pref_out>>

PairPending ==
    /\ pc = "pairs"
    /\ ri <= Len(red_assignments)
    /\ bi <= Len(blue_assignments)

\* one pass of the innermost loop body that appends a composition
EvaluatePair ==
    /\ PairPending
    /\ LET r == ScorePair(red_assignments[ri], blue_assignments[bi])
       IN /\ r.raised = "none"
          /\ valid_combinations' = Append(valid_combinations, r.comp)
          /\ lookups' = r.calls
    /\ IF bi < Len(blue_assignments)
       THEN bi' = bi + 1 /\ ri' = ri
       ELSE bi' = 1 /\ ri' = ri + 1
    /\ UNCHANGED <<call_vars, frame_vars>>
    /\ UNCHANGED <<pool, num_combinations, mode, pc, team_players,
                   red_team_players, blue_team_players, red_assignments,
                   blue_assignments, split_it, result, error, splits_seen,
                   pref_in, pref_out>>

\* one pass of the innermost loop body in which an exception escapes
EvaluatePairRaises ==
    /\ PairPending
    /\ LET r == ScorePair(red_assignments[ri], blue_assignments[bi])
       IN /\ r.raised # "none"
          /\ error' = r.raised
          /\ lookups' = r.calls
    /\ pc' = "raised"
    /\ UNCHANGED <<call_vars, frame_vars>>
    /\ UNCHANGED <<pool, num_combinations, mode, team_players,
                   red_team_players, blue_team_players, red_assignments,
                   blue_assignments, split_it, ri, bi, valid_combinations,
                   result, splits_seen, pref_in, pref_out>>

\* both assignment loops of the current split are exhausted
PairsExhausted ==
    /\ pc = "pairs"
    /\ ri > Len(red_assignments)
    /\ pc' = "splits"
    /\ UNCHANGED <<call_vars, frame_vars>>
    /\ UNCHANGED <<pool, num_combinations, mode, team_players, red_team_players,
                   blue_team_players, red_assignments, blue_assignments,
                   split_it, ri, bi, valid_combinations, result, error,
                   lookups, splits_seen, pref_in, pref_out>>

\* return sorted(valid_combinations, key=...)[:num_combinations]
Return ==
    /\ pc = "sort"
    /\ result' = Slice(sorted(valid_combinations), num_combinations)
    /\ pc' = "done"
    /\ UNCHANGED <<call_vars, frame_vars>>
    /\ UNCHANGED <<pool, num_combinations, mode, team_players, red_team_players,
                   blue_team_players, red_assignments, blue_assignments,
                   split_it, ri, bi, valid_combinations, error, lookups,
                   splits_seen, pref_in, pref_out>>

Next ==
    \/ SubsetLoop
    \/ SubsetsExhausted
    \/ SplitLoop
    \/ SplitsExhausted
    \/ EvaluatePair
    \/ EvaluatePairRaises
    \/ PairsExhausted
    \/ Return

Spec == Init /\ [][Next]_vars

-----------------------------------------------------------------------------
(* The assignment enumerator on its own: five candidates, one call         *)

\* the preference shapes the five candidates are drawn from
PreferenceShapes ==
    { PositionPreference(<<>>, <<>>, <<>>),
      PositionPreference(<<"top", "jgl">>, <<"mid">>, <<"bot", "sup">>),
      PositionPreference(<<"top">>, <<>>, <<>>),
      PositionPreference(<<"jgl">>, <<"mid">>, <<>>),
      PositionPreference(<<"bot">>, <<>>, <<"sup", "mid">>) }

CandidateNames == <<"c1", "c2", "c3", "c4", "c5">>

InitAssign ==
    /\ \E shapes \in [1..5 -> PreferenceShapes] :
          pool = [i \in 1..5 |->
                    [name |-> CandidateNames[i], rank |-> "gold",
                     position_preference |-> shapes[i],
                     server |-> "others", order_capable |-> FALSE]]
    /\ num_combinations = 0
    /\ mode = "advanced"
    /\ pc = "assign"
    /\ team_players = <<>>
    /\ red_team_players = <<1, 2, 3, 4, 5>>
    /\ blue_team_players = <<>>
    /\ red_assignments = <<>>
    /\ blue_assignments = <<>>
    /\ split_it = <<>>
    /\ ri = 1
    /\ bi = 1
    /\ valid_combinations = <<>>
    /\ result = <<>>
    /\ error = "none"
    /\ lookups = {}
    /\ splits_seen = 0
    /\ pref_in = <<>>
    /\ pref_out = NoPreference
    /\ NoFrame

\* red_assignments = generate_valid_position_assignments(list(red_team_players))
GenerateAssignments ==
    /\ pc = "assign"
    /\ red_assignments' = generate_valid_position_assignments(red_team_players)
    /\ pc' = "assigned"
    /\ UNCHANGED <<call_vars, frame_vars>>
    /\ UNCHANGED <<pool, num_combinations, mode, team_players, red_team_players,
                   blue_team_players, blue_assignments, split_it, ri, bi,
                   valid_combinations, result, error, lookups, splits_seen,
                   pref_in, pref_out>>

NextAssign == GenerateAssignments

SpecAssign == InitAssign /\ [][NextAssign]_vars

-----------------------------------------------------------------------------
(* The role-preference validator on its own                                *)

\* role strings given to the validator; "adc" is not one of POSITIONS
RoleInputs == {"top", "mid", "adc"}

RoleLists == UNION {[1..n -> RoleInputs] : n \in 0..MaxRoles}

TierKeys == {"main", "secondary", "tertiary"}

InitPref ==
    /\ \E keys \in SUBSET TierKeys : pref_in \in [keys -> RoleLists]
    /\ pref_out = NoPreference
    /\ pc = "preference"
    /\ pool = <<>>
    /\ num_combinations = 0
    /\ mode = "advanced"
    /\ team_players = <<>>
    /\ red_team_players = <<>>
    /\ blue_team_players = <<>>
    /\ red_assignments = <<>>
    /\ blue_assignments = <<>>
    /\ split_it = <<>>
    /\ ri = 1
    /\ bi = 1
    /\ valid_combinations = <<>>
    /\ result = <<>>
    /\ error = "none"
    /\ lookups = {}
    /\ splits_seen = 0
    /\ NoFrame

\* create_position_preference(positions)
CreatePositionPreference ==
    /\ pc = "preference"
    /\ pref_out' = create_position_preference(pref_in)
    /\ pc' = "created"
    /\ UNCHANGED <<call_vars, frame_vars>>
    /\ UNCHANGED <<pool, num_combinations, mode, team_players, red_team_players,
                   blue_team_players, red_assignments, blue_assignments,
                   split_it, ri, bi, valid_combinations, result, error,
                   lookups, splits_seen, pref_in>>

\* PositionPreference(main_roles=..., secondary_roles=..., tertiary_roles=...)
ConstructPositionPreference ==
    /\ pc = "preference"
    /\ DOMAIN pref_in = TierKeys
    /\ pref_out' = NewPositionPreference(pref_in["main"], pref_in["secondary"],
                                         pref_in["tertiary"])
    /\ pc' = "constructed"
    /\ UNCHANGED <<call_vars, frame_vars>>
    /\ UNCHANGED <<pool, num_combinations, mode, team_players, red_team_players,
                   blue_team_players, red_assignments, blue_assignments,
                   split_it, ri, bi, valid_combinations, result, error,
                   lookups, splits_seen, pref_in>>

\* the role strings the built preference is asked about; "sup" is a role
\* that no input list holds
TierQueries == RoleInputs \cup {"sup"}

\* position_preference.get_position_tier(position) on the built object
GetPositionTier ==
    /\ pc \in {"created", "constructed"}
    /\ pref_out.raised = "none"
    /\ \E position \in TierQueries :
          returned' = [method |-> "get_position_tier", argument |-> position,
                       value |-> get_position_tier(pref_out.value, position)]
    /\ UNCHANGED <<pool, num_combinations, mode, pc, team_players,
                   red_team_players, blue_team_players, red_assignments,
                   blue_assignments, split_it, ri, bi, valid_combinations,
                   result, error, lookups, splits_seen, pref_in, pref_out,
                   flip, frame_vars>>

\* position_preference.get_all_positions() on the built object; the list it
\* returns is list(set(...)), of which the model keeps the set
GetAllPositions ==
    /\ pc \in {"created", "constructed"}
    /\ pref_out.raised = "none"
    /\ returned' = [method |-> "get_all_positions",
                    value |-> get_all_positions(pref_out.value)]
    /\ UNCHANGED <<pool, num_combinations, mode, pc, team_players,
                   red_team_players, blue_team_players, red_assignments,
                   blue_assignments, split_it, ri, bi, valid_combinations,
                   result, error, lookups, splits_seen, pref_in, pref_out,
                   flip, frame_vars>>

NextPref ==
    \/ CreatePositionPreference
    \/ ConstructPositionPreference
    \/ GetPositionTier
    \/ GetAllPositions

SpecPref == InitPref /\ [][NextPref]_vars

-----------------------------------------------------------------------------
(* The team scorer on its own: the body of the innermost loop of the       *)
(* search for one pair of assignments, and the same pair again on a pool   *)
(* that differs in the order_capable field of some players                 *)

\* most players whose order_capable differs between the two pools
MaxFlips == 2

\* the assignments of a side that are scored: its first MaxAssignments
MaxAssignments == 1

FlexNames == <<"f1", "f2", "f3", "f4", "f5", "f6", "f7", "f8", "f9", "f10">>

\* ten players that differ in name only, each with all five roles as main
RosterFlex ==
    [i \in 1..10 |->
        Player(FlexNames[i], "gold", "others", FALSE, POSITIONS, <<>>, <<>>)]

\* ten players of one rank, server and flag who all play all five roles:
\* every other one has top as the main role and the rest as secondary
RosterFlexTiers ==
    [i \in 1..10 |->
        IF i % 2 = 0
        THEN Player(FlexNames[i], "gold", "others", FALSE,
                    <<"top">>, <<"jgl", "mid", "bot", "sup">>, <<>>)
        ELSE Player(FlexNames[i], "gold", "others", FALSE, POSITIONS, <<>>, <<>>)]

ScorePools ==
    {get_selected_players(RosterMixed, 1..10), RosterFlex, RosterFlexTiers}

\* the 5-combinations that take row 1 and one of the rows 2k - 1, 2k for
\* each k in 2..5
ScoreSplits ==
    {[k \in 1..5 |-> 2 * k - 1 + s[k]] :
        s \in {t \in [1..5 -> {0, 1}] : t[1] = 0}}

\* the first MaxAssignments entries of a side's assignment list
FirstAssignments(team) ==
    SeqToSet(Slice(generate_valid_position_assignments(team), MaxAssignments))

FlipSets == {F \in SUBSET (1..10) : Cardinality(F) <= MaxFlips}

InitScore ==
    /\ pool \in ScorePools
    /\ mode \in {"standard", "advanced"}
    /\ num_combinations = 0
    /\ team_players = FirstComb(10)
    /\ split_it \in ScoreSplits
    /\ red_team_players = Pick(team_players, split_it)
    /\ LET NotInRed(p) == ~ PlayerIn(p, red_team_players)
       IN blue_team_players = SelectSeq(team_players, NotInRed)
    \* one of the first assignments of each side; the two lists hold the
    \* pair that is scored
    /\ \E red_pos \in FirstAssignments(red_team_players),
          blue_pos \in FirstAssignments(blue_team_players) :
          /\ red_assignments = <<red_pos>>
          /\ blue_assignments = <<blue_pos>>
    /\ ri = 1
    /\ bi = 1
    /\ flip \in IF mode = "advanced" THEN FlipSets ELSE {{}}
    /\ pc = "score"
    /\ valid_combinations = <<>>
    /\ result = <<>>
    /\ error = "none"
    /\ lookups = {}
    /\ splits_seen = 0
    /\ pref_in = <<>>
    /\ pref_out = NoPreference
    /\ returned = NoCall
    /\ self_players = <<>>
    /\ tree = <<>>
    /\ dialog = "none"
    /\ results_window = FALSE
    /\ NoPage

ScorePending == pc \in {"score", "score_again"}

\* lines 970-985: the pair is scored and the composition appended
ScoreGivenPair ==
    /\ ScorePending
    /\ LET r == ScorePair(red_assignments[ri], blue_assignments[bi])
       IN /\ r.raised = "none"
          /\ valid_combinations' = Append(valid_combinations, r.comp)
          /\ lookups' = r.calls
    /\ pc' = IF pc = "score" THEN "scored" ELSE "rescored"
    /\ UNCHANGED <<pool, num_combinations, mode, team_players,
                   red_team_players, blue_team_players, red_assignments,
                   blue_assignments, split_it, ri, bi, result, error,
                   splits_seen, pref_in, pref_out, call_vars, frame_vars>>

\* lines 970-975 (926-931 in standard mode): an exception escapes
ScoreGivenPairRaises ==
    /\ ScorePending
    /\ LET r == ScorePair(red_assignments[ri], blue_assignments[bi])
       IN /\ r.raised # "none"
          /\ error' = r.raised
          /\ lookups' = r.calls
    /\ pc' = "raised"
    /\ UNCHANGED <<pool, num_combinations, mode, team_players,
                   red_team_players, blue_team_players, red_assignments,
                   blue_assignments, split_it, ri, bi, valid_combinations,
                   result, splits_seen, pref_in, pref_out, call_vars,
                   frame_vars>>

\* the second pool: the same players constructed with the other value of
\* order_capable for the players in flip
WithOrderCapableFlipped(list, changed) ==
    [i \in 1..Len(list) |->
        IF i \in changed
        THEN [list[i] EXCEPT !.order_capable = ~ list[i].order_capable]
        ELSE list[i]]

SecondPool ==
    /\ pc = "scored"
    /\ pool' = WithOrderCapableFlipped(pool, flip)
    /\ pc' = "score_again"
    /\ UNCHANGED <<num_combinations, mode, team_players,
                   red_team_players, blue_team_players, red_assignments,
                   blue_assignments, split_it, ri, bi, valid_combinations,
                   result, error, lookups, splits_seen, pref_in, pref_out,
                   call_vars, frame_vars>>

NextScore ==
    \/ ScoreGivenPair
    \/ ScoreGivenPairRaises
    \/ SecondPool

SpecScore == InitScore /\ [][NextScore]_vars

-----------------------------------------------------------------------------
(* The scoring methods of one Player on their own                          *)

\* the rank strings a Player is constructed with: the ten keys of the point
\* table and one string that is no key
RankInputs == SeqToSet(RANKS) \cup {"Gold"}

\* the server strings a Player is constructed with
ServerInputs == SeqToSet(SERVERS) \cup {"Korea"}

InitPlayer ==
    /\ \E rank \in RankInputs, server \in ServerInputs,
          order_capable \in BOOLEAN, pp \in PreferenceShapes :
          pool = << [name |-> "p", rank |-> rank, position_preference |-> pp,
                     server |-> server, order_capable |-> order_capable] >>
    /\ pc = "player"
    /\ returned = NoCall
    /\ num_combinations = 0
    /\ mode = "advanced"
    /\ team_players = <<>>
    /\ red_team_players = <<>>
    /\ blue_team_players = <<>>
    /\ red_assignments = <<>>
    /\ blue_assignments = <<>>
    /\ split_it = <<>>
    /\ ri = 1
    /\ bi = 1
    /\ valid_combinations = <<>>
    /\ result = <<>>
    /\ error = "none"
    /\ lookups = {}
    /\ splits_seen = 0
    /\ pref_in = <<>>
    /\ pref_out = NoPreference
    /\ flip = {}
    /\ self_players = <<>>
    /\ tree = <<>>
    /\ dialog = "none"
    /\ results_window = FALSE
    /\ NoPage

\* what a method call did: the exception it raised, or the value it returned
Raised(method, position, exception) ==
    [method |-> method, argument |-> position, raised |-> exception, value |-> 0]

Returns(method, position, value) ==
    [method |-> method, argument |-> position, raised |-> "none", value |-> value]

\* player.rank_points(position)
RankPoints ==
    /\ pc = "player"
    /\ \E position \in Roles :
          returned' = IF rank_points_raises(pool[1], position)
                      THEN Raised("rank_points", position, "KeyError")
                      ELSE Returns("rank_points", position,
                                   rank_points(pool[1], position))
    /\ UNCHANGED <<pool, num_combinations, mode, pc, team_players,
                   red_team_players, blue_team_players, red_assignments,
                   blue_assignments, split_it, ri, bi, valid_combinations,
                   result, error, lookups, splits_seen, pref_in, pref_out,
                   flip, frame_vars>>

\* player.position_penalty(position)
PositionPenalty ==
    /\ pc = "player"
    /\ \E position \in Roles :
          returned' = Returns("position_penalty", position,
                              position_penalty(pool[1], position))
    /\ UNCHANGED <<pool, num_combinations, mode, pc, team_players,
                   red_team_players, blue_team_players, red_assignments,
                   blue_assignments, split_it, ri, bi, valid_combinations,
                   result, error, lookups, splits_seen, pref_in, pref_out,
                   flip, frame_vars>>

\* player.position_penalty_advanced(position)
PositionPenaltyAdvanced ==
    /\ pc = "player"
    /\ \E position \in Roles :
          returned' = IF rank_points_raises(pool[1], position)
                      THEN Raised("position_penalty_advanced", position, "KeyError")
                      ELSE Returns("position_penalty_advanced", position,
                                   position_penalty_advanced(pool[1], position))
    /\ UNCHANGED <<pool, num_combinations, mode, pc, team_players,
                   red_team_players, blue_team_players, red_assignments,
                   blue_assignments, split_it, ri, bi, valid_combinations,
                   result, error, lookups, splits_seen, pref_in, pref_out,
                   flip, frame_vars>>

\* player.order_points
OrderPoints ==
    /\ pc = "player"
    /\ returned' = Returns("order_points", "none", order_points(pool[1]))
    /\ UNCHANGED <<pool, num_combinations, mode, pc, team_players,
                   red_team_players, blue_team_players, red_assignments,
                   blue_assignments, split_it, ri, bi, valid_combinations,
                   result, error, lookups, splits_seen, pref_in, pref_out,
                   flip, frame_vars>>

NextPlayer ==
    \/ RankPoints
    \/ PositionPenalty
    \/ PositionPenaltyAdvanced
    \/ OrderPoints

SpecPlayer == InitPlayer /\ [][NextPlayer]_vars

-----------------------------------------------------------------------------
(* The player list: PlayerCreationFrame.add_player and the handlers of     *)
(* PlayerListFrame.  A row of the table is the tuple of its values; the    *)
(* first value is the check mark.  pc is the name of the handler that ran  *)
(* last, dialog the messagebox it showed.                                  *)

\* the two check marks of the Select column
Checked == "checked"
Unchecked == "unchecked"

\* ', '.join(list) if list else 'None'
Joined(list) == IF list = <<>> THEN <<"None">> ELSE list

\* PositionPreference.__str__, as the list of its parts
StrPositionPreference(pp) ==
    <<"Main:", Joined(pp.main_roles), "Secondary:", Joined(pp.secondary_roles),
      "Tertiary:", Joined(pp.tertiary_roles)>>

\* the values of the row that PlayerListFrame.add_player inserts
RowValues(mark, player) ==
    <<mark, player.name, player.rank, player.server,
      StrPositionPreference(player.position_preference),
      IF player.order_capable THEN "Yes" ELSE "No">>

\* (mark,) + current_values[1:]
WithMark(row, mark) == <<mark>> \o Tail(row)

\* PlayerListFrame.add_player on a frame [players, tree]
add_player(frame, player) ==
    [players |-> Append(frame.players, player),
     tree |-> Append(frame.tree, RowValues(Unchecked, player))]

\* the rows with the check mark: the loop of lines 474-478 / 548-551
CheckedRows(rows) == {i \in 1..Len(rows) : rows[i][1] = Checked}

\* list.remove(player): the list without its first entry equal to player
RemoveFirstEqual(list, player) ==
    LET first == CHOOSE i \in 1..Len(list) :
                     /\ PlayerEq(list[i], player)
                     /\ \A j \in 1..(i - 1) : ~ PlayerEq(list[j], player)
    IN RemoveAt(list, first)

\* the loop of lines 495-496
RECURSIVE RemoveAll(_, _)
RemoveAll(list, to_delete) ==
    IF to_delete = <<>> THEN list
    ELSE RemoveAll(RemoveFirstEqual(list, Head(to_delete)), Tail(to_delete))

\* most rows the list is grown to through the form
MaxRows == 3

\* what is entered in the creation form: the text of the name entry, of the
\* two (editable) comboboxes, the flag, and the roles ticked in each tier
Form(name, rank, server, order_capable, main, secondary, tertiary) ==
    [name |-> name, rank |-> rank, server |-> server,
     order_capable |-> order_capable,
     positions |-> [main |-> main, secondary |-> secondary,
                    tertiary |-> tertiary]]

FormInputs ==
    { Form("ann", "gold", "others", FALSE, <<"top">>, <<>>, <<>>),
      Form("bob", "Gold", "Korea",  TRUE,  <<"mid">>, <<"top">>, <<>>),
      Form("cat", "gold", "others", FALSE, <<"top">>, <<"top">>, <<>>),
      Form("dan", "gold", "others", FALSE, <<>>, <<"mid">>, <<>>) }

\* a cell of a role column: empty (read back as NaN), or text that
\* split(', ') cuts into the given parts
NaN == [nan |-> TRUE, parts |-> <<>>]
Text(parts) == [nan |-> FALSE, parts |-> parts]

\* cell.split(', ') if pd.notna(cell) else []
ParseRoles(cell) == IF cell.nan THEN <<>> ELSE cell.parts

\* a row of the spreadsheet, by column
Row(name, rank, server, order_capable, main, secondary, tertiary) ==
    [Name |-> name, Rank |-> rank, Server |-> server,
     OrderCapable |-> order_capable, MainRoles |-> main,
     SecondaryRoles |-> secondary, TertiaryRoles |-> tertiary]

\* the files offered to load_players: whether pd.read_excel reads them, and
\* their rows
FileInputs ==
    { [readable |-> TRUE,
       rows |-> << Row("eve", "Gold", "china", TRUE, Text(<<"sup">>), NaN, Text(<<"bot">>)),
                   Row("ann", "gold", "others", FALSE, Text(<<"top">>), NaN, NaN) >>],
      [readable |-> TRUE,
       rows |-> << Row("fay", "silver", "korea", FALSE, Text(<<"jgl">>), NaN, NaN),
                   Row("gus", "gold", "others", FALSE, Text(<<"top">>), Text(<<"top">>), NaN) >>],
      [readable |-> TRUE,
       rows |-> << Row("hal", "gold", "others", FALSE, Text(<<"adc">>), NaN, NaN) >>],
      [readable |-> FALSE, rows |-> <<>>] }

InitRoster ==
    /\ pc = "idle"
    /\ self_players = <<>>
    /\ tree = <<>>
    /\ dialog = "none"
    /\ results_window = FALSE
    /\ NoPage
    /\ returned = NoCall
    /\ flip = {}
    /\ pool = <<>>
    /\ num_combinations = 0
    /\ mode = "advanced"
    /\ team_players = <<>>
    /\ red_team_players = <<>>
    /\ blue_team_players = <<>>
    /\ red_assignments = <<>>
    /\ blue_assignments = <<>>
    /\ split_it = <<>>
    /\ ri = 1
    /\ bi = 1
    /\ valid_combinations = <<>>
    /\ result = <<>>
    /\ error = "none"
    /\ lookups = {}
    /\ splits_seen = 0
    /\ pref_in = <<>>
    /\ pref_out = NoPreference

\* the variables no handler of the player list touches
search_vars == <<pool, num_combinations, mode, team_players, red_team_players,
                 blue_team_players, red_assignments, blue_assignments,
                 split_it, ri, bi, valid_combinations, result, error, lookups,
                 splits_seen, pref_in, pref_out>>

\* PlayerCreationFrame.add_player: the outcome for a form, as the player
\* handed to the callback or the ValueError caught at line 407
FormOutcome(form) ==
    LET positions == form.positions
        all_positions == positions["main"] \o positions["secondary"]
                         \o positions["tertiary"]
        built == create_position_preference(positions)
    IN IF Len(all_positions) # Cardinality(SeqToSet(all_positions))
       THEN [raised |-> "ValueError"]
       ELSE IF positions["main"] = <<>>
       THEN [raised |-> "ValueError"]
       ELSE IF built.raised # "none"
       THEN [raised |-> built.raised]
       ELSE [raised |-> "none",
             player |-> [name |-> form.name, rank |-> form.rank,
                         position_preference |-> built.value,
                         server |-> form.server,
                         order_capable |-> form.order_capable]]

\* the Add Player button
AddPlayerFromForm ==
    /\ Len(self_players) < MaxRows
    /\ \E form \in FormInputs :
          LET outcome == FormOutcome(form)
              frame == add_player([players |-> self_players, tree |-> tree],
                                  outcome.player)
          IN IF outcome.raised = "none"
             THEN /\ self_players' = frame.players
                  /\ tree' = frame.tree
                  /\ dialog' = "showinfo"
             ELSE /\ dialog' = "showerror"
                  /\ UNCHANGED <<self_players, tree>>
    /\ pc' = "add_player"
    /\ UNCHANGED <<results_window, page_vars, call_vars, search_vars>>

\* a double click on a row
toggle_selection ==
    /\ \E item \in 1..Len(tree) :
          tree' = [tree EXCEPT ![item] =
                      WithMark(@, IF @[1] = Unchecked THEN Checked ELSE Unchecked)]
    /\ pc' = "toggle_selection"
    /\ UNCHANGED <<self_players, dialog, results_window, page_vars, call_vars,
                   search_vars>>

select_all ==
    /\ tree' = [item \in 1..Len(tree) |-> WithMark(tree[item], Checked)]
    /\ pc' = "select_all"
    /\ UNCHANGED <<self_players, dialog, results_window, page_vars, call_vars,
                   search_vars>>

deselect_all ==
    /\ tree' = [item \in 1..Len(tree) |-> WithMark(tree[item], Unchecked)]
    /\ pc' = "deselect_all"
    /\ UNCHANGED <<self_players, dialog, results_window, page_vars, call_vars,
                   search_vars>>

\* the Delete Player button; confirm is the answer to askyesno
delete_players ==
    /\ \E confirm \in BOOLEAN :
          LET rows == SelectSeq([i \in 1..Len(tree) |-> i],
                                LAMBDA i : tree[i][1] = Checked)
              players_to_delete == [k \in 1..Len(rows) |-> self_players[rows[k]]]
          IN IF rows = <<>>
             THEN /\ dialog' = "showinfo"
                  /\ UNCHANGED <<self_players, tree>>
             ELSE IF confirm
             THEN /\ tree' = SelectSeq(tree, LAMBDA row : row[1] # Checked)
                  /\ self_players' = RemoveAll(self_players, players_to_delete)
                  /\ dialog' = "showinfo"
             ELSE /\ dialog' = "askyesno"
                  /\ UNCHANGED <<self_players, tree>>
    /\ pc' = "delete_players"
    /\ UNCHANGED <<results_window, page_vars, call_vars, search_vars>>

\* lines 600-621 for one row: the Player built, or the exception raised
RowOutcome(row) ==
    LET built == create_position_preference(
                     [main |-> ParseRoles(row.MainRoles),
                      secondary |-> ParseRoles(row.SecondaryRoles),
                      tertiary |-> ParseRoles(row.TertiaryRoles)])
    IN IF built.raised # "none"
       THEN [raised |-> built.raised]
       ELSE [raised |-> "none",
             player |-> [name |-> row.Name, rank |-> row.Rank,
                         position_preference |-> built.value,
                         server |-> row.Server,
                         order_capable |-> row.OrderCapable]]

\* the loop of lines 600-621 from row k on: the frame when the loop ends or
\* an exception escapes it
RECURSIVE LoadRows(_, _, _)
LoadRows(frame, rows, k) ==
    IF k > Len(rows) THEN [raised |-> "none", frame |-> frame]
    ELSE IF RowOutcome(rows[k]).raised # "none"
    THEN [raised |-> RowOutcome(rows[k]).raised, frame |-> frame]
    ELSE LoadRows(add_player(frame, RowOutcome(rows[k]).player), rows, k + 1)

\* the Load Players button with a file chosen
load_players ==
    /\ \E file \in FileInputs :
          IF ~ file.readable
          THEN /\ dialog' = "showerror"
               /\ UNCHANGED <<self_players, tree>>
          ELSE LET loaded == LoadRows([players |-> <<>>, tree |-> <<>>],
                                      file.rows, 1)
               IN /\ self_players' = loaded.frame.players
                  /\ tree' = loaded.frame.tree
                  /\ dialog' = IF loaded.raised = "none" THEN "showinfo"
                                                         ELSE "showerror"
    /\ pc' = "load_players"
    /\ UNCHANGED <<results_window, page_vars, call_vars, search_vars>>

\* the Load Players button with the file dialog cancelled
load_players_cancelled ==
    /\ pc' = "load_players"
    /\ UNCHANGED <<self_players, tree, dialog, results_window, page_vars, call_vars,
                   search_vars>>

NextRoster ==
    \/ AddPlayerFromForm
    \/ toggle_selection
    \/ select_all
    \/ deselect_all
    \/ delete_players
    \/ load_players
    \/ load_players_cancelled

SpecRoster == InitRoster /\ [][NextRoster]_vars

-----------------------------------------------------------------------------
(* The two Generate buttons: PlayerListFrame.generate_teams and            *)
(* generate_teams_advanced up to the call of the search, followed by the   *)
(* search itself.                                                          *)

\* RosterEven with 'Gold' typed as the rank of its first player
RosterTyped == [RosterEven EXCEPT ![1].rank = "Gold"]

CallerRosters == {RosterMixed, RosterEven, RosterTyped}

\* the rows left unchecked: none, the last ones (at most MaxDrop), the
\* first one, or all of them
CheckPatterns(n) == {1..(n - k) : k \in 0..MaxDrop} \cup {2..n, {}}

InitCaller ==
    /\ \E roster \in CallerRosters :
          \E checked \in CheckPatterns(Len(roster)) :
             /\ self_players = roster
             /\ tree = [i \in 1..Len(roster) |->
                          RowValues(IF i \in checked THEN Checked ELSE Unchecked,
                                    roster[i])]
    /\ pc = "idle"
    /\ dialog = "none"
    /\ results_window = FALSE
    /\ NoPage
    /\ returned = NoCall
    /\ flip = {}
    /\ pool = <<>>
    /\ num_combinations = 0
    /\ mode = "none"
    /\ team_players = <<>>
    /\ red_team_players = <<>>
    /\ blue_team_players = <<>>
    /\ red_assignments = <<>>
    /\ blue_assignments = <<>>
    /\ split_it = <<>>
    /\ ri = 1
    /\ bi = 1
    /\ valid_combinations = <<>>
    /\ result = <<>>
    /\ error = "none"
    /\ lookups = {}
    /\ splits_seen = 0
    /\ pref_in = <<>>
    /\ pref_out = NoPreference

\* variant: nine selected players are let through
EnoughPlayersFromNine(selected_players) == ~ (Len(selected_players) < 9)

\* the negation of the test of lines 630 / 703
EnoughPlayers(selected_players) == ~ (Len(selected_players) < 10)

\* lines 628-652 / 701-725: the warning and return, or the results window
\* and the call of the search function of the given mode
GenerateCall(search_mode) ==
    LET selected_players ==
            get_selected_players(self_players, CheckedRows(tree)) \o <<>>
    IN IF EnoughPlayers(selected_players)
       THEN /\ results_window' = TRUE
            /\ pool' = selected_players
            /\ num_combinations' = ResultCount
            /\ mode' = search_mode
            /\ pc' = "subsets"
            /\ UNCHANGED dialog
       ELSE /\ dialog' = "showwarning"
            /\ pc' = "warned"
            /\ UNCHANGED <<results_window, pool, num_combinations, mode>>

\* the Generate Teams button
generate_teams ==
    /\ pc \in {"idle", "warned"}
    /\ GenerateCall("standard")
    /\ UNCHANGED <<self_players, tree, call_vars, page_vars, team_players,
                   red_team_players, blue_team_players, red_assignments,
                   blue_assignments, split_it, ri, bi, valid_combinations,
                   result, error, lookups, splits_seen, pref_in, pref_out>>

\* the Generate Teams (Advanced) button
generate_teams_advanced ==
    /\ pc \in {"idle", "warned"}
    /\ GenerateCall("advanced")
    /\ UNCHANGED <<self_players, tree, call_vars, page_vars, team_players,
                   red_team_players, blue_team_players, red_assignments,
                   blue_assignments, split_it, ri, bi, valid_combinations,
                   result, error, lookups, splits_seen, pref_in, pref_out>>

\* compositions_per_page of the results window
compositions_per_page == 5

\* math.ceil(n / d) for n >= 0 and d > 0
math_ceil(n, d) == (n + d - 1) \div d

\* str(comp), the text inserted for a composition
str(comp) == [str |-> comp]

\* variant: the headings restart at 1 on every page
display_page_numbered_per_page(page_num, all_compositions) ==
    LET start_idx == page_num * compositions_per_page
        end_idx == Min(start_idx + compositions_per_page, Len(all_compositions))
        shown == IF end_idx > start_idx THEN end_idx - start_idx ELSE 0
    IN [text |-> [i \in 1..shown |->
                    [heading |-> i,
                     text |-> str(all_compositions[start_idx + i])]] \o <<>>,
        label |-> [page |-> page_num + 1,
                   of |-> math_ceil(Len(all_compositions), compositions_per_page)]]

\* display_page(page_num): what the text widget holds afterwards (the
\* slice all_compositions[start_idx:end_idx], each entry under its heading
\* "Team Composition #n") and the two numbers of the page label
display_page(page_num, all_compositions) ==
    LET start_idx == page_num * compositions_per_page
        end_idx == Min(start_idx + compositions_per_page, Len(all_compositions))
        shown == IF end_idx > start_idx THEN end_idx - start_idx ELSE 0
    IN [text |-> [i \in 1..shown |->
                    [heading |-> start_idx + i,
                     text |-> str(all_compositions[start_idx + i])]] \o <<>>,
        label |-> [page |-> page_num + 1,
                   of |-> math_ceil(Len(all_compositions), compositions_per_page)]]

\* the positions of a results window whose search has returned
PagePcs == {"display_page", "prev_page", "next_page"}

\* what the handlers of the results window leave alone
UnchangedByPaging ==
    UNCHANGED <<self_players, tree, dialog, results_window, call_vars,
                search_vars>>

\* lines 654-697 / 727-770 after the search returned: current_page = [0],
\* the buttons and the label are created, then display_page(0)
initial_display ==
    /\ pc = "done"
    /\ current_page' = 0
    /\ text_widget' = display_page(0, result).text
    /\ page_label' = display_page(0, result).label
    /\ pc' = "display_page"
    /\ UnchangedByPaging

\* the Previous button
prev_page ==
    /\ pc \in PagePcs
    /\ IF current_page > 0
       THEN /\ current_page' = current_page - 1
            /\ text_widget' = display_page(current_page', result).text
            /\ page_label' = display_page(current_page', result).label
       ELSE UNCHANGED page_vars
    /\ pc' = "prev_page"
    /\ UnchangedByPaging

\* the Next button
next_page ==
    /\ pc \in PagePcs
    /\ IF current_page < math_ceil(Len(result), compositions_per_page) - 1
       THEN /\ current_page' = current_page + 1
            /\ text_widget' = display_page(current_page', result).text
            /\ page_label' = display_page(current_page', result).label
       ELSE UNCHANGED page_vars
    /\ pc' = "next_page"
    /\ UnchangedByPaging

NextCaller ==
    \/ generate_teams
    \/ generate_teams_advanced
    \/ SubsetLoop
    \/ SubsetsExhausted
    \/ SplitLoop
    \/ SplitsExhausted
    \/ EvaluatePair
    \/ EvaluatePairRaises
    \/ PairsExhausted
    \/ Return
    \/ initial_display
    \/ prev_page
    \/ next_page

SpecCaller == InitCaller /\ [][NextCaller]_vars

-----------------------------------------------------------------------------
(* Properties                                                              *)

Range(f) == {f[x] : x \in DOMAIN f}

Eligible(p, position) ==
    \/ InList(position, pool[p].position_preference.main_roles)
    \/ InList(position, pool[p].position_preference.secondary_roles)
    \/ InList(position, pool[p].position_preference.tertiary_roles)

\* a total mapping of the five roles to five different pool entries, each
\* entry in a role of its own tiers
IsAssignment(a) ==
    /\ DOMAIN a = Roles
    /\ \A x, y \in Roles : x # y => a[x] # a[y]
    /\ \A x \in Roles : Eligible(a[x], x)

\* the members of a set of numbers in ascending order
Ascending(S) ==
    [k \in 1..Cardinality(S) |->
        CHOOSE x \in S : Cardinality({y \in S : y < x}) = k - 1]

\* lexicographic order on integer tuples of equal length
LexLess(a, b) ==
    \E k \in 1..Len(a) : a[k] < b[k] /\ \A j \in 1..(k - 1) : a[j] = b[j]

\* the place of a composition in the enumeration over the input list:
\* the 10-subset, the side-A five, the side-A ordering, the side-B ordering
DiscoveryKey(c) ==
    Ascending(Range(c.red_team) \cup Range(c.blue_team))
    \o Ascending(Range(c.red_team))
    \o [k \in 1..5 |-> c.red_team[POSITIONS[k]]]
    \o [k \in 1..5 |-> c.blue_team[POSITIONS[k]]]

Returned == pc = "done"

\* C1: in advanced mode the search returns, for every pool and N >= 0,
\* exactly min(N, M) of the M enumerated compositions (and raises nothing),
\* in non-decreasing order of T+L, and no composition left out has a
\* smaller T+L than a returned one.
C1_ReturnsBestN ==
    mode = "advanced" =>
        /\ pc # "raised"
        /\ Returned =>
            /\ Len(result) = Min(num_combinations, Len(valid_combinations))
            /\ \A i, j \in 1..Len(result) :
                  i < j => SortKey(result[i]) <= SortKey(result[j])
            /\ \A c \in SeqToSet(valid_combinations) \ SeqToSet(result) :
                  \A k \in 1..Len(result) : SortKey(c) >= SortKey(result[k])

\* C2: for five distinct candidates the enumerator returns exactly the
\* eligible bijections between the five roles and the five candidates, each
\* once: 120 when all are eligible for all roles, none when some candidate
\* is eligible for no role.
C2_ExactlyTheEligibleBijections ==
    pc = "assigned" =>
        LET bijections == {f \in [Roles -> 1..5] : IsAssignment(f)}
        IN /\ SeqToSet(red_assignments) = bijections
           /\ Len(red_assignments) = Cardinality(bijections)
           /\ (\A p \in 1..5 : \A x \in Roles : Eligible(p, x))
                 => Len(red_assignments) = 120
           /\ (\E p \in 1..5 : \A x \in Roles : ~ Eligible(p, x))
                 => Len(red_assignments) = 0

\* a call on candidates of which some but not all orderings are valid
C2_Witness ==
    /\ pc = "assigned"
    /\ Len(red_assignments) > 1
    /\ Len(red_assignments) < 120

\* C3: every enumerated pair of sides maps the five roles to five different
\* pool entries each, in roles of their tiers; the sides share no pool entry
\* and together are the ten entries of the chosen subset.
C3_SidesSplitTheSubset ==
    pc = "pairs" =>
        \A i \in 1..Len(red_assignments) : \A j \in 1..Len(blue_assignments) :
            /\ IsAssignment(red_assignments[i])
            /\ IsAssignment(blue_assignments[j])
            /\ Range(red_assignments[i]) \cap Range(blue_assignments[j]) = {}
            /\ Range(red_assignments[i]) \cup Range(blue_assignments[j])
                 = SeqToSet(team_players)

\* C4: the standard mode completes: scoring a pair raises no error, and a
\* search with a feasible composition and N > 0 returns a non-empty list.
C4_StandardModeCompletes ==
    mode = "standard" =>
        /\ pc # "raised"
        /\ (Returned /\ num_combinations > 0 /\ Len(valid_combinations) > 0)
              => Len(result) > 0

\* C5: every tiered lookup made while scoring a pair is for a role in one of
\* the candidate's three tiers (the tier "none", -1, is never looked up).
C5_NoLookupOutsideTiers ==
    \A call \in lookups : call[3] # -1

GivenMain == DictGet(pref_in, "main")
GivenSecondary == DictGet(pref_in, "secondary")
GivenTertiary == DictGet(pref_in, "tertiary")

InTwoLists ==
    \/ SeqToSet(GivenMain) \cap SeqToSet(GivenSecondary) # {}
    \/ SeqToSet(GivenMain) \cap SeqToSet(GivenTertiary) # {}
    \/ SeqToSet(GivenSecondary) \cap SeqToSet(GivenTertiary) # {}

NotARole ==
    \E r \in SeqToSet(GivenMain) \cup SeqToSet(GivenSecondary)
             \cup SeqToSet(GivenTertiary) : r \notin Roles

NoRepeat(list) == \A i, j \in DOMAIN list : i # j => list[i] # list[j]

PreferenceBuilt == pc \in {"created", "constructed"}

\* C7: building a PositionPreference raises and yields no object when a role
\* is in two of the lists or a listed role is not one of the five; for
\* disjoint lists of valid roles without repeats it yields the object
\* holding the three lists as given.
C7_ValidatorAcceptsExactlyDisjointValid ==
    PreferenceBuilt =>
        /\ (InTwoLists \/ NotARole)
              => pref_out.raised # "none" /\ pref_out.value = "no object"
        /\ (~ InTwoLists /\ ~ NotARole /\ NoRepeat(GivenMain)
            /\ NoRepeat(GivenSecondary) /\ NoRepeat(GivenTertiary))
              => /\ pref_out.raised = "none"
                 /\ pref_out.value =
                      [main_roles |-> GivenMain,
                       secondary_roles |-> GivenSecondary,
                       tertiary_roles |-> GivenTertiary]

\* valid roles, one of them in two lists, rejected
C7_Witness ==
    /\ PreferenceBuilt
    /\ InTwoLists
    /\ ~ NotARole
    /\ pref_out.raised = "ValueError"

\* C8: the returned list is in non-decreasing order of T+L and compositions
\* with equal T+L are in discovery order (10-subset, then side-A five, then
\* side-A assignment, then side-B assignment, as enumerated over the input
\* list).
C8_TiesInDiscoveryOrder ==
    Returned =>
        \A i, j \in 1..Len(result) :
            i < j =>
                /\ SortKey(result[i]) <= SortKey(result[j])
                /\ SortKey(result[i]) = SortKey(result[j])
                      => LexLess(DiscoveryKey(result[i]), DiscoveryKey(result[j]))

\* a returned list with a tie whose later member was discovered after a
\* composition of larger T+L
C8_Witness ==
    /\ Returned
    /\ \E i, j \in 1..Len(result) :
          /\ i < j
          /\ SortKey(result[i]) = SortKey(result[j])
          /\ \E c \in SeqToSet(valid_combinations) :
                /\ SortKey(c) > SortKey(result[j])
                /\ LexLess(DiscoveryKey(c), DiscoveryKey(result[j]))

DistinctCandidates(S) == \A p, q \in S : p # q => ~ PlayerEq(pool[p], pool[q])

\* C9: every 10-subset is split 252 times, and for every collected
\* composition of a subset of distinct candidates the side-swapped
\* composition is collected too, with the same T and L and swapped scores.
C9_SwappedCompositionCollected ==
    /\ (pc = "splits" /\ ~ HasNextComb(split_it, Len(team_players), 5))
          => splits_seen = 252
    /\ Returned =>
          \A c \in SeqToSet(valid_combinations) :
              DistinctCandidates(Range(c.red_team) \cup Range(c.blue_team))
              => \E d \in SeqToSet(valid_combinations) :
                    /\ d.red_team = c.blue_team
                    /\ d.blue_team = c.red_team
                    /\ d.red_score = c.blue_score
                    /\ d.blue_score = c.red_score
                    /\ d.t_value = c.t_value
                    /\ d.l_value = c.l_value

\* a finished search that collected compositions with unequal side scores
C9_Witness ==
    /\ Returned
    /\ \E c \in SeqToSet(valid_combinations) :
          /\ DistinctCandidates(Range(c.red_team) \cup Range(c.blue_team))
          /\ c.red_score # c.blue_score

LastCombination == valid_combinations[Len(valid_combinations)]

LanesEqual(c) ==
    \A x \in Roles :
        PosScoreAdvanced(pool[c.red_team[x]], x)
            = PosScoreAdvanced(pool[c.blue_team[x]], x)

\* C10: T and L of every scored pair are non-negative; T is 0 exactly when
\* the two side scores are equal and L is 0 exactly when the two sides have
\* equal per-role scores in each of the five roles.
C10_MetricsNonNegativeZeroIffEqual ==
    Len(valid_combinations) > 0 =>
        /\ LastCombination.t_value >= 0
        /\ LastCombination.l_value >= 0
        /\ LastCombination.t_value = 0
              <=> LastCombination.red_score = LastCombination.blue_score
        /\ LastCombination.l_value = 0 <=> LanesEqual(LastCombination)

\* a scored pair with L = 0 although the sides hold different candidates
C10_Witness ==
    /\ Len(valid_combinations) > 0
    /\ LastCombination.l_value = 0
    /\ LastCombination.t_value = 0

\* ten candidates, all eligible for all five roles, of one rank, one region
\* and one shot-caller flag
FullyFlexibleUniformPool ==
    /\ Len(pool) = 10
    /\ \A i \in 1..Len(pool) :
          /\ get_all_positions(pool[i].position_preference) = Roles
          /\ pool[i].rank = pool[1].rank
          /\ pool[i].server = pool[1].server
          /\ pool[i].order_capable = pool[1].order_capable

\* C11: on a pool of exactly 10 candidates who are all eligible for all five
\* roles and have the same rank, region and shot-caller flag, in either mode,
\* scoring a pair raises nothing and every composition has T = 0 and L = 0.
C11_FlexiblePoolAllZero ==
    FullyFlexibleUniformPool =>
        /\ pc # "raised"
        /\ \A k \in 1..Len(valid_combinations) :
              /\ valid_combinations[k].t_value = 0
              /\ valid_combinations[k].l_value = 0

\* the candidates of an assignment, in role order
Assigned(a) == [k \in 1..Len(POSITIONS) |-> a[POSITIONS[k]]]

\* the score of a side as the sum over its five (role, candidate) pairs plus
\* the square root of the mean of the candidates' tiered rank points, each
\* for the role the candidate is assigned to
SideScoreAtAssignedRoles(a) ==
    LET per_pair == [k \in 1..Len(POSITIONS) |->
                       rank_points(pool[a[POSITIONS[k]]], POSITIONS[k]) * 1000
                       + position_penalty_advanced(pool[a[POSITIONS[k]]], POSITIONS[k])
                       + order_points(pool[a[POSITIONS[k]]])]
        assigned_points == [k \in 1..Len(POSITIONS) |->
                              rank_points(pool[a[POSITIONS[k]]], POSITIONS[k])]
    IN SumSeq(per_pair)
       + ISqrt((SumSeq(assigned_points) * 1000000) \div Len(POSITIONS))

PairScored == pc \in {"scored", "rescored"}

\* C13: in advanced mode the score of each side of a scored pair is the sum
\* over the five pairs of rank points, advanced role-fit adjustment and
\* shot-caller bonus, plus one synergy term: the square root of the mean of
\* the five candidates' rank points for their assigned roles.
C13_SideScoreUsesAssignedRoles ==
    (mode = "advanced" /\ PairScored) =>
        /\ LastCombination.red_score
              = SideScoreAtAssignedRoles(LastCombination.red_team)
        /\ LastCombination.blue_score
              = SideScoreAtAssignedRoles(LastCombination.blue_team)

\* the candidates of a side with the shot-caller flag, in the pool of the
\* second scoring and in the pool of the first
FlaggedNow(a) == {p \in Range(a) : pool[p].order_capable}
FlaggedBefore(a) == {p \in Range(a) : pool[p].order_capable # (p \in flip)}

\* C16: scoring a pair again after flipping the shot-caller flag of any
\* candidates leaves L unchanged and changes each side's score by 0.5 times
\* the change in the number of flagged candidates on that side.
C16_ShotCallerOncePerCandidateNotInL ==
    pc = "rescored" =>
        LET first == valid_combinations[1]
            second == valid_combinations[2]
        IN /\ second.l_value = first.l_value
           /\ second.red_score - first.red_score
                = 500 * (Cardinality(FlaggedNow(second.red_team))
                         - Cardinality(FlaggedBefore(second.red_team)))
           /\ second.blue_score - first.blue_score
                = 500 * (Cardinality(FlaggedNow(second.blue_team))
                         - Cardinality(FlaggedBefore(second.blue_team)))

\* a pair scored twice, with a flag set on one side and a flag cleared on
\* the other in between
C16_Witness ==
    /\ pc = "rescored"
    /\ valid_combinations[2].red_score > valid_combinations[1].red_score
    /\ valid_combinations[2].blue_score < valid_combinations[1].blue_score

\* C12: for every built PositionPreference the three tiers are pairwise
\* disjoint; get_position_tier returns 1 iff the role is in the main list,
\* 2 iff in the secondary list, 3 iff in the tertiary list and -1 iff in
\* none; get_all_positions is the union of the three lists.
C12_TiersDisjointAndTierByMembership ==
    (PreferenceBuilt /\ pref_out.raised = "none") =>
        LET main == SeqToSet(pref_out.value.main_roles)
            secondary == SeqToSet(pref_out.value.secondary_roles)
            tertiary == SeqToSet(pref_out.value.tertiary_roles)
        IN /\ main \cap secondary = {}
           /\ main \cap tertiary = {}
           /\ secondary \cap tertiary = {}
           /\ returned.method = "get_position_tier" =>
                 /\ returned.value \in {1, 2, 3, -1}
                 /\ returned.value = 1 <=> returned.argument \in main
                 /\ returned.value = 2 <=> returned.argument \in secondary
                 /\ returned.value = 3 <=> returned.argument \in tertiary
                 /\ returned.value = -1
                       <=> returned.argument \notin main \cup secondary \cup tertiary
           /\ returned.method = "get_all_positions" =>
                 returned.value = main \cup secondary \cup tertiary

\* a preference with a main and a tertiary role, asked about the tertiary one
C12_Witness ==
    /\ PreferenceBuilt
    /\ pref_out.raised = "none"
    /\ pref_out.value.main_roles # <<>>
    /\ returned.method = "get_position_tier"
    /\ returned.value = 3

\* the list of the tier (1, 2 or 3) of a preference
TierList(pp, tier) ==
    IF tier = 1 THEN pp.main_roles
    ELSE IF tier = 2 THEN pp.secondary_roles
    ELSE pp.tertiary_roles

\* the player under study has a rank of the point table and a region of
\* the region set
InDataModel ==
    /\ pool[1].rank \in SeqToSet(RANKS)
    /\ pool[1].server \in SeqToSet(SERVERS)

\* C14: for a candidate (rank among the ten tiers, region of the region set)
\* and an assigned role in the candidate's tier k, rank_points returns the
\* point-table entry of (rank, first role listed in tier k) plus 1 if the
\* region is korea or china; assigning any other role of tier k gives the
\* same value.
C14_RankPointsOfTierRepresentative ==
    (returned.method = "rank_points" /\ InDataModel) =>
        LET pp == pool[1].position_preference
            tier == get_position_tier(pp, returned.argument)
        IN tier \in {1, 2, 3} =>
              /\ returned.raised = "none"
              /\ returned.value
                    = RANKS_POINT_DICT[pool[1].rank][TierList(pp, tier)[1]]
                      + (IF pool[1].server \in {"korea", "china"} THEN 1 ELSE 0)
              /\ \A other \in SeqToSet(TierList(pp, tier)) :
                    rank_points(pool[1], other) = returned.value

\* rank_points for a role that is not the representative of its tier and
\* has another table entry than the representative
C14_Witness ==
    /\ returned.method = "rank_points"
    /\ InDataModel
    /\ pool[1].server = "korea"
    /\ InList(returned.argument, pool[1].position_preference.tertiary_roles)
    /\ returned.argument # pool[1].position_preference.tertiary_roles[1]
    /\ RANKS_POINT_DICT[pool[1].rank][returned.argument] + 1 # returned.value

\* C15: the role-fit adjustment is, in standard mode, +2.5 / -1.5 / -5.0 for
\* a main / secondary / tertiary role, in advanced mode the candidate's
\* tiered rank points for the role times +0.02 / -0.02 / -0.30, and in both
\* modes negative infinity for a role in none of the tiers.
C15_RoleFitAdjustmentByTier ==
    InDataModel =>
        LET tier == get_position_tier(pool[1].position_preference,
                                      returned.argument)
            points == rank_points(pool[1], returned.argument)
        IN /\ returned.method = "position_penalty" =>
                 returned.value = IF tier = 1 THEN 2500
                                  ELSE IF tier = 2 THEN -1500
                                  ELSE IF tier = 3 THEN -5000
                                  ELSE NegInf
           /\ returned.method = "position_penalty_advanced" =>
                 /\ returned.raised = "none"
                 /\ returned.value = IF tier = 1 THEN 20 * points
                                     ELSE IF tier = 2 THEN (-20) * points
                                     ELSE IF tier = 3 THEN (-300) * points
                                     ELSE NegInf

\* the advanced adjustment of a tertiary role
C15_Witness ==
    /\ InDataModel
    /\ returned.method = "position_penalty_advanced"
    /\ get_position_tier(pool[1].position_preference, returned.argument) = 3
    /\ returned.value < -5000

\* the values a row shows, apart from its check mark
Shown(row) == Tail(row)

\* C17: the player list and the table rows stay aligned: there are as many
\* rows as players and the i-th row shows the i-th player, whatever sequence
\* of add, toggle, select all, deselect all, delete and load has run.
C17_RowsShowPlayersInOrder ==
    /\ Len(tree) = Len(self_players)
    /\ \A i \in 1..Len(tree) :
          Shown(tree[i]) = Shown(RowValues(Unchecked, self_players[i]))

\* C19: a load that fails (the error dialog is shown) leaves the player
\* list and the table as they were before the load.
C19_FailedLoadKeepsRoster ==
    [][(pc' = "load_players" /\ dialog' = "showerror")
          => (self_players' = self_players /\ tree' = tree)]_vars

\* C20: every player in the list has a rank of RANKS and a region of
\* SERVERS, so that no table lookup can fail when the player is scored.
C20_RosterRanksAndRegionsValid ==
    \A i \in 1..Len(self_players) :
        /\ InList(self_players[i].rank, RANKS)
        /\ InList(self_players[i].server, SERVERS)

\* the players whose rows are checked now
SelectedNow ==
    LET rows == SelectSeq([i \in 1..Len(self_players) |-> i],
                          LAMBDA i : i <= Len(tree) /\ tree[i][1] = Checked)
    IN [k \in 1..Len(rows) |-> self_players[rows[k]]]

\* C18: the search runs only when at least 10 players are selected, on all
\* the selected players and with a result count of 100, in a results window;
\* with fewer than 10 selected there is a warning, no search and no window.
C18_CallerEnforcesPoolSize ==
    /\ pc \notin {"idle", "warned"}
          => /\ Len(SelectedNow) >= 10
             /\ pool = SelectedNow
             /\ num_combinations = 100
             /\ mode \in {"standard", "advanced"}
             /\ results_window
    /\ pc = "warned"
          => /\ Len(SelectedNow) < 10
             /\ dialog = "showwarning"
             /\ ~ results_window
             /\ pool = <<>>
             /\ team_players = <<>>
             /\ valid_combinations = <<>>
             /\ result = <<>>

\* a search that ran to its end on ten checked players of eleven
C18_Witness ==
    /\ pc = "done"
    /\ Len(self_players) = 11
    /\ Len(pool) = 10
    /\ results_window

\* the last page of a list of m compositions: the least page p >= 0 whose
\* end 5(p + 1) reaches m
LastPage(m) ==
    CHOOSE p \in 0..m :
        /\ 5 * (p + 1) >= m
        /\ \A q \in 0..(p - 1) : 5 * (q + 1) < m

\* the text widget shows the compositions with 0-based indices
\* 5p .. min(5p + 5, m) - 1 of the returned list, headed 5p + 1, 5p + 2, ...
ShowsPage(p, widget) ==
    LET m == Len(result)
        last == (IF 5 * p + 5 <= m THEN 5 * p + 5 ELSE m) - 1
    IN /\ Len(widget) = (IF last >= 5 * p THEN last - 5 * p + 1 ELSE 0)
       /\ \A i \in 1..Len(widget) :
             /\ widget[i].heading = 5 * p + i
             /\ widget[i].text = [str |-> result[5 * p + i]]

\* C21: in the results window the page index stays within
\* 0 .. max(0, ceil(M/5) - 1) for M returned compositions; Previous on the
\* first page and Next on the last page change nothing; and the page shown
\* is page p's slice of the returned list, numbered from 5p + 1.
C21_PageIndexInRangeAndPageShowsItsSlice ==
    [][pc' \in {"display_page", "prev_page", "next_page"}
          => /\ current_page' \in 0..LastPage(Len(result'))
             /\ ShowsPage(current_page', text_widget')
             /\ (pc' = "prev_page" /\ current_page = 0)
                   => (current_page' = 0 /\ text_widget' = text_widget)
             /\ (pc' = "next_page" /\ current_page = LastPage(Len(result)))
                   => (current_page' = current_page /\ text_widget' = text_widget)]_vars

\* the last, partly filled page of 32 compositions, reached by Next clicks,
\* with a further Next click that was ignored
C21_Witness ==
    /\ pc = "next_page"
    /\ Len(result) = 32
    /\ current_page = 6
    /\ Len(text_widget) = 2
    /\ text_widget[1].heading = 31

=============================================================================
